---- MODULE Spec2Model ----
(***************************************************************************)
(* Model of the eh-pg read-model repository (package repo, sqlx driver):   *)
(* Repo.Find, FindAll, FindWithFilter, FindWithFilterUsingIndex, Save,     *)
(* Remove, SetEntityFactory and Clear over one Postgres table whose        *)
(* primary key is the id column.  The entity type is mocks.Model.          *)
(*                                                                         *)
(* Every handler is one action.  The Backend (sqlx / lib/pq / Postgres) is *)
(* the environment: each request a handler sends either reports a driver   *)
(* failure or is executed on the table, chosen by the input drv.           *)
(*                                                                         *)
(* Further specifications in this module: SpecPg, the go-pg variant of the *)
(* same repository; SpecChain, the function Repository over chains of      *)
(* parent links; SpecPgConc and SpecConc, callers of the go-pg variant and *)
(* of the sqlx variant running concurrently.                               *)
(***************************************************************************)
EXTENDS Integers, Sequences, FiniteSets, TLC

VARIABLES table, nsTables, factoryFn, last, saved,
          handle, cur, ret,
          procs, commits

\* The state of the repository and of the database it talks to.
repoVars == <<table, nsTables, factoryFn, last, saved>>

\* The state of a call of Repository (SpecChain).
chainVars == <<handle, cur, ret>>

\* The state of the concurrent callers (SpecPgConc, SpecConc).
concVars == <<procs, commits>>

vars == <<table, nsTables, factoryFn, last, saved, handle, cur, ret, procs, commits>>

(***************************************************************************)
(* Bounds of the model.                                                    *)
(***************************************************************************)
MaxID == 2
MaxChain == 3
MaxProcs == 3

(***************************************************************************)
(* Values.                                                                 *)
(***************************************************************************)
\* uuid.Nil, the zero identifier.
NilUUID == 0

IDs == NilUUID .. MaxID
Versions == {0, 1}
Contents == {"entity1", "entity1Alt"}
CreatedAts == {"2009-11-10T23:00:00Z", "2009-11-11T23:00:00Z"}
Namespaces == {"default", "ns"}

\* The field values of the entities the callers pass, as <<Version, Content,
\* CreatedAt>>: a sample in which every field takes both of its values, every
\* two entities differ in two fields, and the Version of one is lower than,
\* equal to or higher than the Version of another.
Payloads ==
    {<<0, "entity1", "2009-11-10T23:00:00Z">>,
     <<0, "entity1Alt", "2009-11-11T23:00:00Z">>,
     <<1, "entity1", "2009-11-11T23:00:00Z">>}

\* mocks.Model: the Go struct, by field name.
Model ==
    {m \in [ID : IDs, Version : Versions, Content : Contents, CreatedAt : CreatedAts] :
        <<m.Version, m.Content, m.CreatedAt>> \in Payloads}

\* The db tags of mocks.Model: the column names of the table.
Columns == {"id", "version", "content", "created_at"}

\* config.TableName, as the integration test configures it.
TableName == "models"

\* The closure dbName of NewRepoWithClient: the table name followed by the
\* namespace of the context.  No method calls it.
dbName(ns) == TableName \o "_" \o ns

\* The table with the namespace-dependent name.
TableForNamespace(ns) == dbName(ns)

\* The table every statement names: r.config.TableName, whatever the
\* namespace of the context.
TableFor(ns) == TableName

\* The names of the namespace-dependent tables.
NamespaceTables == {dbName(ns) : ns \in Namespaces}

\* The factory values SetEntityFactory can be given: none, or the one
\* returning &mocks.Model{}.
Factories == {"nil", "Model"}

\* A Go error value: nil, an eh.RepoError, or another error.
NoErr == [type |-> "nil", Err |-> "", BaseErr |-> "", Namespace |-> ""]

RepoError(kind, base, ns) ==
    [type |-> "RepoError", Err |-> kind, BaseErr |-> base, Namespace |-> ns]

\* An error that is not an eh.RepoError.
BareError(cause) ==
    [type |-> "error", Err |-> cause, BaseErr |-> "", Namespace |-> ""]

ErrModelNotSet == "model not set"
ErrCouldNotClearDB == "could not clear database"
ErrEntityNotFound == "could not find entity"
ErrCouldNotSaveEntity == "could not save entity"
ErrMissingEntityID == "missing entity ID"
ErrCouldNotRemoveEntity == "could not remove entity"
ErrNoRows == "sql: no rows in result set"
ErrDriver == "driver error"
NoBaseErr == ""

(***************************************************************************)
(* The field mapper and the row scanner.                                   *)
(***************************************************************************)
\* FieldMap with the created_at field left out of the mapping: the column is
\* written with the zero time.
FieldMapWithoutCreatedAt(entity) ==
    [c \in Columns |->
        CASE c = "id" -> entity.ID
          [] c = "version" -> entity.Version
          [] c = "content" -> entity.Content
          [] c = "created_at" -> "2009-11-10T23:00:00Z"]

\* mapper.FieldMap: column name (db tag) |-> value of the tagged field.
FieldMap(entity) ==
    [c \in Columns |->
        CASE c = "id" -> entity.ID
          [] c = "version" -> entity.Version
          [] c = "content" -> entity.Content
          [] c = "created_at" -> entity.CreatedAt]

\* rows.StructScan / GetContext into a fresh mocks.Model: each column's value
\* goes to the field that carries its db tag.
StructScan(row) ==
    [ID |-> row["id"], Version |-> row["version"],
     Content |-> row["content"], CreatedAt |-> row["created_at"]]

(***************************************************************************)
(* The statements the handlers send, executed on the table (a set of rows, *)
(* each a function from Columns).                                          *)
(***************************************************************************)
\* The select without its WHERE clause.
SelectWithoutWhere(tbl, id) == tbl

\* SELECT * FROM t WHERE id=$1
SelectByID(tbl, id) == {r \in tbl : r["id"] = id}

\* The upsert whose conflict clause updates the content column only.
UpsertContentOnly(tbl, fields, values) ==
    LET conflict == {r \in tbl : r["id"] = values["id"]}
        updated(r) == [c \in Columns |-> IF c = "content" THEN values[c] ELSE r[c]]
    IN  IF conflict = {}
        THEN [table |-> tbl \cup {values}, affected |-> 1]
        ELSE [table |-> (tbl \ conflict) \cup {updated(r) : r \in conflict},
              affected |-> Cardinality(conflict)]

\* The upsert as an optimistic-concurrency write: the conflict clause updates
\* the row only when the incoming version is higher than the stored one.
UpsertIfNewer(tbl, fields, values) ==
    LET conflict == {r \in tbl : r["id"] = values["id"]}
        newer == {r \in conflict : values["version"] > r["version"]}
    IN  IF conflict = {}
        THEN [table |-> tbl \cup {values}, affected |-> 1]
        ELSE [table |-> (tbl \ newer) \cup {values : r \in newer},
              affected |-> Cardinality(newer)]

\* The upsert whose update is not held to the conflicting row: when the
\* identifier has a row, every row takes the incoming values of the columns
\* other than id.
UpsertUpdatingAll(tbl, fields, values) ==
    LET conflict == {r \in tbl : r["id"] = values["id"]}
        updated(r) == [c \in Columns |->
                          IF c \in fields \ {"id"} THEN values[c] ELSE r[c]]
    IN  IF conflict = {}
        THEN [table |-> tbl \cup {values}, affected |-> 1]
        ELSE [table |-> {updated(r) : r \in tbl}, affected |-> Cardinality(conflict)]

\* The upsert whose conflict clause leaves the version column out of the
\* columns it updates.
UpsertKeepingVersion(tbl, fields, values) ==
    LET conflict == {r \in tbl : r["id"] = values["id"]}
        updated(r) == [c \in Columns |->
                          IF c \in fields \ {"version"} THEN values[c] ELSE r[c]]
    IN  IF conflict = {}
        THEN [table |-> tbl \cup {values}, affected |-> 1]
        ELSE [table |-> (tbl \ conflict) \cup {updated(r) : r \in conflict},
              affected |-> Cardinality(conflict)]

\* INSERT INTO t (fields) VALUES (values)
\*   ON CONFLICT (id) DO UPDATE SET f = EXCLUDED.f for every f of fields.
\* Returns the new table and the number of rows affected.
Upsert(tbl, fields, values) ==
    LET conflict == {r \in tbl : r["id"] = values["id"]}
        updated(r) == [c \in Columns |-> IF c \in fields THEN values[c] ELSE r[c]]
    IN  IF conflict = {}
        THEN [table |-> tbl \cup {values}, affected |-> 1]
        ELSE [table |-> (tbl \ conflict) \cup {updated(r) : r \in conflict},
              affected |-> Cardinality(conflict)]

\* What a write statement does and reports, by the Backend outcome drv: "ok"
\* the statement w is executed and its row count reported; "zeroRows" the
\* Backend executes nothing and reports zero affected rows.  ("fail", a driver
\* error, is handled before the row count is looked at.)
Written(w, tbl, drv) == IF drv = "zeroRows" THEN [table |-> tbl, affected |-> 0] ELSE w

\* The delete without its WHERE clause.
DeleteWithoutWhere(tbl, id) == [table |-> {}, affected |-> Cardinality(tbl)]

\* DELETE FROM t WHERE id = $1
DeleteByID(tbl, id) ==
    [table |-> {r \in tbl : r["id"] # id},
     affected |-> Cardinality({r \in tbl : r["id"] = id})]

\* delete from t
DeleteAll(tbl) == {}

\* The orders in which SELECT * FROM t (no ORDER BY) can return the rows.
ScanOrders(tbl) ==
    {s \in [1 .. Cardinality(tbl) -> tbl] :
        \A i, j \in 1 .. Cardinality(tbl) : i # j => s[i] # s[j]}

\* One of these orders.
ScanOrder(tbl) == CHOOSE s \in ScanOrders(tbl) : TRUE

(***************************************************************************)
(* The handlers, as functions of the state and the inputs.  Each returns   *)
(* the table after the call and what the caller gets.                      *)
(***************************************************************************)
\* The factory check left out.
FactoryNeverUnset(f) == FALSE

\* r.factoryFn == nil
FactoryUnset(f) == f = "nil"

\* The identifier check left out.
MissingIDNever(entity) == FALSE

\* entity.EntityID() == uuid.Nil
MissingID(entity) == entity.ID = NilUUID

\* Save: err != nil || affected != 1 (RowsAffected itself does not fail)
SaveRejects(affected) == affected # 1

\* Remove without the check of the affected rows.
RemoveRejectsNever(affected) == FALSE

\* Remove rejecting only more than one affected row.
RemoveRejectsMany(affected) == affected > 1

\* Remove: w != nil && affected != 1
RemoveRejects(affected) == affected # 1

\* What a call leaves and returns.  insts names, element by element, the
\* instance each returned entity is; arg is the caller's entity as a Save
\* leaves it.
Outcome(tbl, result, err, calls, drv, panic) ==
    [table |-> tbl, result |-> result, err |-> err, calls |-> calls,
     drv |-> drv, panic |-> panic, insts |-> <<>>, arg |-> <<>>]

\* An instance, named by who created it during the call and the how-manieth
\* instance of that creator it is: the n-th call of r.factoryFn(), or the
\* value go-pg hands to the ForEach callback for the n-th row.  (Repo keeps no
\* entity between calls, so no instance of an earlier call is at hand.)
Inst(by, n) == [by |-> by, n |-> n]

WithInsts(out, insts) == [out EXCEPT !.insts = insts]

WithArg(out, entity) == [out EXCEPT !.arg = <<entity>>]

\* The instances FindAll appends: the entity created before the loop takes
\* the first row, and after each append entity = r.factoryFn() creates the
\* one for the next row.
FindAllInstances(stop) == [i \in 1 .. stop |-> Inst("factoryFn", i)]

\* Repo.Find
FindResult(f, tbl, ns, id, drv) ==
    IF FactoryUnset(f)
    THEN Outcome(tbl, <<>>, RepoError(ErrModelNotSet, NoBaseErr, ns), <<>>, "none", FALSE)
    ELSE IF drv # "ok"
    THEN Outcome(tbl, <<>>, RepoError(ErrEntityNotFound, ErrDriver, ns),
                 <<"GetContext">>, drv, FALSE)
    ELSE IF SelectByID(tbl, id) = {}
    THEN Outcome(tbl, <<>>, RepoError(ErrEntityNotFound, ErrNoRows, ns),
                 <<"GetContext">>, drv, FALSE)
    ELSE WithInsts(Outcome(tbl, <<StructScan(CHOOSE r \in SelectByID(tbl, id) : TRUE)>>,
                           NoErr, <<"GetContext">>, drv, FALSE),
                   <<Inst("factoryFn", 1)>>)

\* FindAll reporting an empty scan the way Find reports a missing row.
FindAllResultEmptyNotFound(f, tbl, ns, rows, stop, drv) ==
    IF FactoryUnset(f)
    THEN Outcome(tbl, <<>>, RepoError(ErrModelNotSet, NoBaseErr, ns), <<>>, "none", FALSE)
    ELSE IF drv = "fail" \/ (drv = "ok" /\ Len(rows) = 0)
    THEN Outcome(tbl, <<>>, RepoError(ErrEntityNotFound, ErrDriver, ns),
                 <<"QueryxContext">>, drv, FALSE)
    ELSE IF drv = "scanFail"
    THEN Outcome(tbl, <<>>, BareError(ErrDriver), <<"QueryxContext">>, drv, FALSE)
    ELSE Outcome(tbl, [i \in 1 .. stop |-> StructScan(rows[i])], NoErr,
                 <<"QueryxContext">>, drv, FALSE)

\* FindAll scanning every row into the one entity created before the loop
\* (no entity = r.factoryFn() after the append): every element of the result
\* is that entity, which holds the row scanned last.
FindAllResultOneEntity(f, tbl, ns, rows, stop, drv) ==
    IF FactoryUnset(f)
    THEN Outcome(tbl, <<>>, RepoError(ErrModelNotSet, NoBaseErr, ns), <<>>, "none", FALSE)
    ELSE IF drv = "fail"
    THEN Outcome(tbl, <<>>, RepoError(ErrEntityNotFound, ErrDriver, ns),
                 <<"QueryxContext">>, drv, FALSE)
    ELSE IF drv = "scanFail"
    THEN Outcome(tbl, <<>>, BareError(ErrDriver), <<"QueryxContext">>, drv, FALSE)
    ELSE Outcome(tbl, [i \in 1 .. stop |-> StructScan(rows[stop])], NoErr,
                 <<"QueryxContext">>, drv, FALSE)

\* Repo.FindAll; rows is the order in which the query returns the rows and
\* stop the number of rows read before the outcome drv:
\*   "fail"      QueryxContext returns an error (rows is nil)
\*   "scanFail"  rows.StructScan fails on row stop+1: the error is returned as is
\*   "nextFail"  rows.Next() ends the loop after stop rows (rows.Err() is not
\*               looked at): the rows read so far are returned
\*   "ok"        all rows are read (stop = Len(rows))
FindAllResult(f, tbl, ns, rows, stop, drv) ==
    IF FactoryUnset(f)
    THEN Outcome(tbl, <<>>, RepoError(ErrModelNotSet, NoBaseErr, ns), <<>>, "none", FALSE)
    ELSE IF drv = "fail"
    THEN Outcome(tbl, <<>>, RepoError(ErrEntityNotFound, ErrDriver, ns),
                 <<"QueryxContext">>, drv, FALSE)
    ELSE IF drv = "scanFail"
    THEN Outcome(tbl, <<>>, BareError(ErrDriver), <<"QueryxContext">>, drv, FALSE)
    ELSE WithInsts(Outcome(tbl, [i \in 1 .. stop |-> StructScan(rows[i])], NoErr,
                           <<"QueryxContext">>, drv, FALSE),
                   FindAllInstances(stop))

\* A filter method that runs the expression as the WHERE clause of a select
\* ("" selects every row).
FindWithFilterResultQuery(f, tbl, ns, expr, args) ==
    IF FactoryUnset(f)
    THEN Outcome(tbl, <<>>, RepoError(ErrModelNotSet, NoBaseErr, ns), <<>>, "none", FALSE)
    ELSE LET rows == IF expr = "" THEN tbl ELSE {r \in tbl : r["content"] = args}
         IN  Outcome(tbl, [i \in 1 .. Cardinality(rows) |-> StructScan(ScanOrder(rows)[i])],
                     NoErr, <<"QueryxContext">>, "ok", FALSE)

\* Repo.FindWithFilter and Repo.FindWithFilterUsingIndex: after the factory
\* check, return nil, nil.  expr is the filter expression (for the second
\* method the index input followed by the expression), args its arguments.
FindWithFilterResult(f, tbl, ns, expr, args) ==
    IF FactoryUnset(f)
    THEN Outcome(tbl, <<>>, RepoError(ErrModelNotSet, NoBaseErr, ns), <<>>, "none", FALSE)
    ELSE Outcome(tbl, <<>>, NoErr, <<>>, "none", FALSE)

\* Repo.Save; the entity is read by the field mapper and bound to the
\* statement, never written.
SaveResult(f, tbl, ns, entity, drv) ==
    WithArg(
        IF MissingID(entity)
        THEN Outcome(tbl, <<>>, RepoError(ErrCouldNotSaveEntity, ErrMissingEntityID, ns),
                     <<>>, "none", FALSE)
        ELSE IF drv = "fail"
        THEN Outcome(tbl, <<>>, RepoError(ErrCouldNotSaveEntity, ErrDriver, ns),
                     <<"NamedExecContext">>, drv, FALSE)
        ELSE LET w == Written(Upsert(tbl, DOMAIN FieldMap(entity), FieldMap(entity)), tbl, drv)
             IN  IF SaveRejects(w.affected)
                 THEN Outcome(w.table, <<>>, RepoError(ErrCouldNotSaveEntity, NoBaseErr, ns),
                              <<"NamedExecContext">>, drv, FALSE)
                 ELSE Outcome(w.table, <<>>, NoErr, <<"NamedExecContext">>, drv, FALSE),
        entity)

\* Remove reporting a failed delete the way Find reports a failed select, as
\* EntityNotFound.
RemoveResultFailNotFound(f, tbl, ns, id, drv) ==
    IF drv # "ok"
    THEN Outcome(tbl, <<>>, RepoError(ErrEntityNotFound, ErrDriver, ns),
                 <<"ExecContext">>, drv, FALSE)
    ELSE LET w == DeleteByID(tbl, id)
         IN  IF RemoveRejects(w.affected)
             THEN Outcome(w.table, <<>>, RepoError(ErrEntityNotFound, NoBaseErr, ns),
                          <<"ExecContext">>, drv, FALSE)
             ELSE Outcome(w.table, <<>>, NoErr, <<"ExecContext">>, drv, FALSE)

\* Repo.Remove
RemoveResult(f, tbl, ns, id, drv) ==
    IF drv # "ok"
    THEN Outcome(tbl, <<>>, RepoError(ErrCouldNotRemoveEntity, ErrDriver, ns),
                 <<"ExecContext">>, drv, FALSE)
    ELSE LET w == DeleteByID(tbl, id)
         IN  IF RemoveRejects(w.affected)
             THEN Outcome(w.table, <<>>, RepoError(ErrEntityNotFound, NoBaseErr, ns),
                          <<"ExecContext">>, drv, FALSE)
             ELSE Outcome(w.table, <<>>, NoErr, <<"ExecContext">>, drv, FALSE)

\* Clear without the transaction: the delete takes effect when it is executed,
\* whatever the commit reports.
ClearResultNoTx(f, tbl, ns, drv) ==
    CASE drv = "beginFail" ->
            Outcome(tbl, <<>>, NoErr, <<"MustBeginTx">>, drv, TRUE)
      [] drv = "execFail" ->
            Outcome(tbl, <<>>, NoErr, <<"MustBeginTx", "MustExec">>, drv, TRUE)
      [] drv = "commitFail" ->
            Outcome(DeleteAll(tbl), <<>>, RepoError(ErrCouldNotClearDB, ErrDriver, ns),
                    <<"MustBeginTx", "MustExec", "Commit">>, drv, FALSE)
      [] OTHER ->
            Outcome(DeleteAll(tbl), <<>>, NoErr,
                    <<"MustBeginTx", "MustExec", "Commit">>, drv, FALSE)

\* Repo.Clear; drv tells which of the three transaction steps fails, if any.
\* MustBeginTx and MustExec panic on a failure; an uncommitted delete is
\* rolled back.
ClearResult(f, tbl, ns, drv) ==
    CASE drv = "beginFail" ->
            Outcome(tbl, <<>>, NoErr, <<"MustBeginTx">>, drv, TRUE)
      [] drv = "execFail" ->
            Outcome(tbl, <<>>, NoErr, <<"MustBeginTx", "MustExec">>, drv, TRUE)
      [] drv = "commitFail" ->
            Outcome(tbl, <<>>, RepoError(ErrCouldNotClearDB, ErrDriver, ns),
                    <<"MustBeginTx", "MustExec", "Commit">>, drv, FALSE)
      [] OTHER ->
            Outcome(DeleteAll(tbl), <<>>, NoErr,
                    <<"MustBeginTx", "MustExec", "Commit">>, drv, FALSE)

\* Repo.Close: a failure of client.Close() goes to log.Fatalf, which ends the
\* process (recorded as a call that does not return).
CloseResult(tbl, drv) ==
    Outcome(tbl, <<>>, NoErr, <<"Close">>, drv, drv # "ok")

(***************************************************************************)
(* State.                                                                  *)
(*   table      the rows of the configured table                           *)
(*   nsTables   the rows of the tables with namespace-dependent names      *)
(*   factoryFn  Repo.factoryFn                                             *)
(*   last       the latest call: its inputs (entity holds the entity of a  *)
(*              Save, the expression and argument of a filter method), the *)
(*              table before it, what it returned, the Backend calls it    *)
(*              made, the instances it returned, the caller's entity after *)
(*              a Save, and (for a Find) the call before it                *)
(*   saved      history: per identifier, the entity of the latest          *)
(*              successful Save not followed by a successful Remove or     *)
(*              Clear (<<>> when there is none)                            *)
(***************************************************************************)
Call(op, ns, id, entity, prior, pre, out) ==
    [op |-> op, ns |-> ns, id |-> id, entity |-> entity, prior |-> prior, pre |-> pre,
     result |-> out.result, err |-> out.err, calls |-> out.calls,
     drv |-> out.drv, panic |-> out.panic, insts |-> out.insts, arg |-> out.arg]

\* What a Find records of the call right before it, when that call was a
\* successful Save or Remove of the identifier the Find asks for: the
\* operation, the entity saved, and the entities stored under the identifier
\* before that call.
NoPrior == [op |-> "none", ns |-> "", entity |-> <<>>, old |-> {}]

Prior(id) ==
    IF last.op \in {"Save", "Remove"} /\ last.id = id /\ last.err = NoErr /\ ~last.panic
    THEN [op |-> last.op, ns |-> last.ns, entity |-> last.entity,
          old |-> {StructScan(r) : r \in {x \in last.pre : x["id"] = id}}]
    ELSE NoPrior

\* The rows of the table a statement names.
Rows(name) == IF name = TableName THEN table ELSE nsTables[name]

\* The table a statement names gets the rows the statement leaves.
Store(name, rows) ==
    /\ table' = IF name = TableName THEN rows ELSE table
    /\ nsTables' = IF name = TableName THEN nsTables
                   ELSE [nsTables EXCEPT ![name] = rows]

\* The repository is in use: Close has not been called.
Open == last.op # "Close"

\* No call of Repository is under way.
ChainIdle ==
    /\ handle = <<>>
    /\ cur = <<>>
    /\ ret = "none"

\* No concurrent caller is under way.
ConcIdle ==
    /\ procs = <<>>
    /\ commits = <<>>

InitRepo ==
    /\ table = {}
    /\ nsTables = [n \in NamespaceTables |-> {}]
    /\ factoryFn = "nil"
    /\ last = Call("NewRepoWithClient", "default", NilUUID, <<>>, NoPrior, {},
                   Outcome({}, <<>>, NoErr, <<>>, "none", FALSE))
    /\ saved = [i \in IDs |-> <<>>]

Init ==
    /\ InitRepo
    /\ ChainIdle
    /\ ConcIdle

SetEntityFactory(f) ==
    /\ Open
    /\ factoryFn' = f
    /\ last' = Call("SetEntityFactory", "default", NilUUID, <<>>, NoPrior, table,
                    Outcome(table, <<>>, NoErr, <<>>, "none", FALSE))
    /\ UNCHANGED <<table, nsTables, saved, chainVars, concVars>>

Find(ns, id, drv) ==
    LET pre == Rows(TableFor(ns))
        out == FindResult(factoryFn, pre, ns, id, drv)
    IN  /\ Open
        /\ last' = Call("Find", ns, id, <<>>, Prior(id), pre, out)
        /\ Store(TableFor(ns), out.table)
        /\ UNCHANGED <<factoryFn, saved, chainVars, concVars>>

\* The rows a FindAll query hands over, by outcome: none when the query
\* itself fails, otherwise the rows of the table in one of their orders.
FindAllRows(tbl, drv) == IF drv = "fail" THEN {<<>>} ELSE ScanOrders(tbl)

FindAll(ns, drv) ==
    LET pre == Rows(TableFor(ns))
    IN  \E rows \in FindAllRows(pre, drv) : \E stop \in 0 .. Len(rows) :
            LET out == FindAllResult(factoryFn, pre, ns, rows, stop, drv)
            IN  /\ Open
                /\ CASE drv = "ok" -> stop = Len(rows)
                     [] drv = "fail" -> stop = 0
                     [] OTHER -> stop < Len(rows)
                /\ last' = Call("FindAll", ns, NilUUID, <<>>, NoPrior, pre, out)
                /\ Store(TableFor(ns), out.table)
                /\ UNCHANGED <<factoryFn, saved, chainVars, concVars>>

\* The filter inputs: an expression and its argument.
Filters == {<<"", "">>, <<"content = ?", "entity1">>}

FindWithFilter(ns, expr, args) ==
    LET pre == Rows(TableFor(ns))
        out == FindWithFilterResult(factoryFn, pre, ns, expr, args)
    IN  /\ Open
        /\ last' = Call("FindWithFilter", ns, NilUUID, <<expr, args>>, NoPrior, pre, out)
        /\ Store(TableFor(ns), out.table)
        /\ UNCHANGED <<factoryFn, saved, chainVars, concVars>>

FindWithFilterUsingIndex(ns, expr, args) ==
    LET pre == Rows(TableFor(ns))
        out == FindWithFilterResult(factoryFn, pre, ns, expr, args)
    IN  /\ Open
        /\ last' = Call("FindWithFilterUsingIndex", ns, NilUUID, <<expr, args>>, NoPrior, pre, out)
        /\ Store(TableFor(ns), out.table)
        /\ UNCHANGED <<factoryFn, saved, chainVars, concVars>>

Save(ns, entity, drv) ==
    LET pre == Rows(TableFor(ns))
        out == SaveResult(factoryFn, pre, ns, entity, drv)
    IN  /\ Open
        /\ last' = Call("Save", ns, entity.ID, <<entity>>, NoPrior, pre, out)
        /\ Store(TableFor(ns), out.table)
        /\ saved' = IF out.err = NoErr /\ ~out.panic
                    THEN [saved EXCEPT ![entity.ID] = <<entity>>]
                    ELSE saved
        /\ UNCHANGED <<factoryFn, chainVars, concVars>>

Remove(ns, id, drv) ==
    LET pre == Rows(TableFor(ns))
        out == RemoveResult(factoryFn, pre, ns, id, drv)
    IN  /\ Open
        /\ last' = Call("Remove", ns, id, <<>>, NoPrior, pre, out)
        /\ Store(TableFor(ns), out.table)
        /\ saved' = IF out.err = NoErr /\ ~out.panic
                    THEN [saved EXCEPT ![id] = <<>>]
                    ELSE saved
        /\ UNCHANGED <<factoryFn, chainVars, concVars>>

Clear(ns, drv) ==
    LET pre == Rows(TableFor(ns))
        out == ClearResult(factoryFn, pre, ns, drv)
    IN  /\ Open
        /\ last' = Call("Clear", ns, NilUUID, <<>>, NoPrior, pre, out)
        /\ Store(TableFor(ns), out.table)
        /\ saved' = IF out.err = NoErr /\ ~out.panic
                    THEN [i \in IDs |-> <<>>]
                    ELSE saved
        /\ UNCHANGED <<factoryFn, chainVars, concVars>>

\* Repo.Close; the context it is given is not read.
Close(drv) ==
    LET out == CloseResult(table, drv)
    IN  /\ Open
        /\ last' = Call("Close", "", NilUUID, <<>>, NoPrior, table, out)
        /\ UNCHANGED <<table, nsTables, factoryFn, saved, chainVars, concVars>>

DrvOutcomes == {"ok", "fail"}
WriteOutcomes == {"ok", "fail", "zeroRows"}
FindAllOutcomes == {"ok", "fail", "scanFail", "nextFail"}
ClearOutcomes == {"ok", "beginFail", "execFail", "commitFail"}

Next ==
    \/ \E f \in Factories : SetEntityFactory(f)
    \/ \E ns \in Namespaces, id \in IDs, drv \in DrvOutcomes : Find(ns, id, drv)
    \/ \E ns \in Namespaces, drv \in FindAllOutcomes : FindAll(ns, drv)
    \/ \E ns \in Namespaces, flt \in Filters : FindWithFilter(ns, flt[1], flt[2])
    \/ \E ns \in Namespaces, flt \in Filters : FindWithFilterUsingIndex(ns, flt[1], flt[2])
    \/ \E ns \in Namespaces, entity \in Model, drv \in WriteOutcomes : Save(ns, entity, drv)
    \/ \E ns \in Namespaces, id \in IDs, drv \in DrvOutcomes : Remove(ns, id, drv)
    \/ \E ns \in Namespaces, drv \in ClearOutcomes : Clear(ns, drv)
    \/ \E drv \in DrvOutcomes : Close(drv)

Spec == Init /\ [][Next]_vars

(***************************************************************************)
(* The go-pg variant of the repository: the same table, the handlers of    *)
(* the second Repo type.  Its statements name the table of the model type, *)
(* which is the one table for every namespace.                             *)
(***************************************************************************)
ErrDuplicateKey == "duplicate key value violates unique constraint"

\* UPDATE t SET every column of the entity WHERE id = ?
UpdateByID(tbl, values) ==
    LET hit == {r \in tbl : r["id"] = values["id"]}
    IN  [table |-> (tbl \ hit) \cup {values : r \in hit}, affected |-> Cardinality(hit)]

\* INSERT INTO t VALUES (...), no conflict clause: a row with the same primary
\* key makes the statement fail.
Insert(tbl, values) ==
    IF \E r \in tbl : r["id"] = values["id"]
    THEN [table |-> tbl, affected |-> 0, err |-> ErrDuplicateKey]
    ELSE [table |-> tbl \cup {values}, affected |-> 1, err |-> ""]

\* Model(entity).WherePK().Delete(): DELETE FROM t WHERE id = the identifier
\* of the entity.
DeleteWherePK(tbl, entity) == DeleteByID(tbl, entity.ID)

\* r.factoryFn(): a zero-valued model.
ZeroModel == [ID |-> NilUUID, Version |-> 0, Content |-> "", CreatedAt |-> ""]

\* Repo.Find (go-pg)
PgFindResult(f, tbl, ns, id, drv) ==
    IF FactoryUnset(f)
    THEN Outcome(tbl, <<>>, RepoError(ErrModelNotSet, NoBaseErr, ns), <<>>, "none", FALSE)
    ELSE IF drv # "ok"
    THEN Outcome(tbl, <<>>, RepoError(ErrEntityNotFound, ErrDriver, ns), <<"Select">>, drv, FALSE)
    ELSE IF SelectByID(tbl, id) = {}
    THEN Outcome(tbl, <<>>, RepoError(ErrEntityNotFound, ErrNoRows, ns), <<"Select">>, drv, FALSE)
    ELSE WithInsts(Outcome(tbl, <<StructScan(CHOOSE r \in SelectByID(tbl, id) : TRUE)>>,
                           NoErr, <<"Select">>, drv, FALSE),
                   <<Inst("factoryFn", 1)>>)

\* The instances the go-pg FindAll appends: the X value ForEach passes to the
\* callback for each row.  The entity the factory created names the table of
\* the query and is not returned.
PgFindAllInstances(n) == [i \in 1 .. n |-> Inst("ForEach", i)]

\* Repo.FindAll (go-pg): ForEach appends one X value per row; any error of
\* the iteration is wrapped as EntityNotFound.
PgFindAllResult(f, tbl, ns, rows, drv) ==
    IF FactoryUnset(f)
    THEN Outcome(tbl, <<>>, RepoError(ErrModelNotSet, NoBaseErr, ns), <<>>, "none", FALSE)
    ELSE IF drv # "ok"
    THEN Outcome(tbl, <<>>, RepoError(ErrEntityNotFound, ErrDriver, ns), <<"ForEach">>, drv, FALSE)
    ELSE WithInsts(Outcome(tbl, [i \in 1 .. Len(rows) |-> StructScan(rows[i])], NoErr,
                           <<"ForEach">>, drv, FALSE),
                   PgFindAllInstances(Len(rows)))

\* The identifier of fromDB after the select of Save, whose error is dropped:
\* the stored identifier when the select found the row, uuid.Nil otherwise.
FromDB(tbl, id, sel) ==
    IF sel = "ok" /\ SelectByID(tbl, id) # {} THEN id ELSE ZeroModel.ID

\* Repo.Save (go-pg) after the select: when fromDB carries the identifier,
\* update and require one affected row; otherwise insert, where only the
\* error is looked at.  sel and drv are the Backend outcomes of the select and
\* of the write.
PgSaveWrite(tbl, ns, entity, fromDB, sel, drv) ==
    IF fromDB = entity.ID
    THEN IF drv = "fail"
         THEN Outcome(tbl, <<>>, RepoError(ErrCouldNotSaveEntity, ErrDriver, ns),
                      <<"Select", "Update">>, sel \o "/" \o drv, FALSE)
         ELSE LET w == Written(UpdateByID(tbl, FieldMap(entity)), tbl, drv)
              IN  IF w.affected # 1
                  THEN Outcome(w.table, <<>>, RepoError(ErrCouldNotSaveEntity, NoBaseErr, ns),
                               <<"Select", "Update">>, sel \o "/" \o drv, FALSE)
                  ELSE Outcome(w.table, <<>>, NoErr,
                               <<"Select", "Update">>, sel \o "/" \o drv, FALSE)
    ELSE IF drv = "fail"
         THEN Outcome(tbl, <<>>, RepoError(ErrCouldNotSaveEntity, ErrDriver, ns),
                      <<"Select", "Insert">>, sel \o "/" \o drv, FALSE)
         ELSE IF drv = "ok" /\ Insert(tbl, FieldMap(entity)).err # ""
         THEN Outcome(tbl, <<>>,
                      RepoError(ErrCouldNotSaveEntity, Insert(tbl, FieldMap(entity)).err, ns),
                      <<"Select", "Insert">>, sel \o "/" \o drv, FALSE)
         ELSE LET w == Written(Insert(tbl, FieldMap(entity)), tbl, drv)
              IN  Outcome(w.table, <<>>, NoErr,
                          <<"Select", "Insert">>, sel \o "/" \o drv, FALSE)

\* Repo.Save (go-pg): the identifier check, the select of the stored entity
\* into fromDB (the error of the select is dropped), then the write.  A nil
\* factoryFn panics at the call r.factoryFn().
PgSaveResult(f, tbl, ns, entity, sel, drv) ==
    IF MissingID(entity)
    THEN Outcome(tbl, <<>>, RepoError(ErrCouldNotSaveEntity, ErrMissingEntityID, ns),
                 <<>>, "none", FALSE)
    ELSE IF FactoryUnset(f)
    THEN Outcome(tbl, <<>>, NoErr, <<>>, "none", TRUE)
    ELSE WithArg(PgSaveWrite(tbl, ns, entity, FromDB(tbl, entity.ID, sel), sel, drv), entity)

\* Repo.Remove (go-pg)
PgRemoveResult(f, tbl, ns, id, drv) ==
    IF FactoryUnset(f)
    THEN Outcome(tbl, <<>>, RepoError(ErrModelNotSet, NoBaseErr, ns), <<>>, "none", FALSE)
    ELSE IF drv # "ok"
    THEN Outcome(tbl, <<>>, RepoError(ErrCouldNotRemoveEntity, ErrDriver, ns),
                 <<"Delete">>, drv, FALSE)
    ELSE LET w == DeleteByID(tbl, id)
         IN  IF RemoveRejects(w.affected)
             THEN Outcome(w.table, <<>>, RepoError(ErrEntityNotFound, NoBaseErr, ns),
                          <<"Delete">>, drv, FALSE)
             ELSE Outcome(w.table, <<>>, NoErr, <<"Delete">>, drv, FALSE)

\* Repo.Clear (go-pg): the delete is restricted to the primary key of the
\* entity the factory has just created.
PgClearResult(f, tbl, ns, drv) ==
    IF FactoryUnset(f)
    THEN Outcome(tbl, <<>>, NoErr, <<>>, "none", TRUE)
    ELSE IF drv # "ok"
    THEN Outcome(tbl, <<>>, RepoError(ErrCouldNotClearDB, ErrDriver, ns), <<"Delete">>, drv, FALSE)
    ELSE Outcome(DeleteWherePK(tbl, ZeroModel).table, <<>>, NoErr, <<"Delete">>, drv, FALSE)

PgFind(ns, id, drv) ==
    LET out == PgFindResult(factoryFn, table, ns, id, drv)
    IN  /\ Open
        /\ last' = Call("Find", ns, id, <<>>, Prior(id), table, out)
        /\ table' = out.table
        /\ UNCHANGED <<nsTables, factoryFn, saved, chainVars, concVars>>

PgFindAll(ns, drv) ==
    \E rows \in FindAllRows(table, drv) :
        LET out == PgFindAllResult(factoryFn, table, ns, rows, drv)
        IN  /\ Open
            /\ last' = Call("FindAll", ns, NilUUID, <<>>, NoPrior, table, out)
            /\ table' = out.table
            /\ UNCHANGED <<nsTables, factoryFn, saved, chainVars, concVars>>

PgSave(ns, entity, sel, drv) ==
    LET out == PgSaveResult(factoryFn, table, ns, entity, sel, drv)
    IN  /\ Open
        /\ last' = Call("Save", ns, entity.ID, <<entity>>, NoPrior, table, out)
        /\ table' = out.table
        /\ saved' = IF out.err = NoErr /\ ~out.panic
                    THEN [saved EXCEPT ![entity.ID] = <<entity>>]
                    ELSE saved
        /\ UNCHANGED <<nsTables, factoryFn, chainVars, concVars>>

PgRemove(ns, id, drv) ==
    LET out == PgRemoveResult(factoryFn, table, ns, id, drv)
    IN  /\ Open
        /\ last' = Call("Remove", ns, id, <<>>, NoPrior, table, out)
        /\ table' = out.table
        /\ saved' = IF out.err = NoErr /\ ~out.panic
                    THEN [saved EXCEPT ![id] = <<>>]
                    ELSE saved
        /\ UNCHANGED <<nsTables, factoryFn, chainVars, concVars>>

PgClear(ns, drv) ==
    LET out == PgClearResult(factoryFn, table, ns, drv)
    IN  /\ Open
        /\ last' = Call("Clear", ns, NilUUID, <<>>, NoPrior, table, out)
        /\ table' = out.table
        /\ saved' = IF out.err = NoErr /\ ~out.panic
                    THEN [i \in IDs |-> <<>>]
                    ELSE saved
        /\ UNCHANGED <<nsTables, factoryFn, chainVars, concVars>>

\* The namespace of the contexts the go-pg handlers are called with.
PgNamespaces == {"default"}

NextPg ==
    \/ \E f \in Factories : SetEntityFactory(f)
    \/ \E ns \in PgNamespaces, id \in IDs, drv \in DrvOutcomes : PgFind(ns, id, drv)
    \/ \E ns \in PgNamespaces, drv \in DrvOutcomes : PgFindAll(ns, drv)
    \/ \E ns \in Namespaces, flt \in Filters : FindWithFilter(ns, flt[1], flt[2])
    \/ \E ns \in Namespaces, flt \in Filters : FindWithFilterUsingIndex(ns, flt[1], flt[2])
    \/ \E ns \in PgNamespaces, entity \in Model, sel \in DrvOutcomes, drv \in WriteOutcomes :
          PgSave(ns, entity, sel, drv)
    \/ \E ns \in PgNamespaces, id \in IDs, drv \in DrvOutcomes : PgRemove(ns, id, drv)
    \/ \E ns \in PgNamespaces, drv \in DrvOutcomes : PgClear(ns, drv)
    \/ \E drv \in DrvOutcomes : Close(drv)

SpecPg == Init /\ [][NextPg]_vars

(***************************************************************************)
(* Callers running concurrently.  Every statement a handler sends is       *)
(* atomic in the database; the statements of different callers run in any  *)
(* order.  A caller makes one call.  The callers work on one identifier,   *)
(* SharedID.                                                               *)
(*   procs    per caller: where it is in its call, the operation and its   *)
(*            arguments, the identifier the select of a go-pg Save left in *)
(*            fromDB, the number of committed writes (at) and the rows of  *)
(*            the identifier (pre) its last statement found, the Backend   *)
(*            outcomes of its statements, the result and error returned    *)
(*   commits  the callers whose write changed the table, in commit order   *)
(* SpecPgConc has the go-pg Save, a select followed by a write, and the    *)
(* go-pg Remove; SpecConc has Find, Save and Remove of the sqlx variant,   *)
(* each of which sends one statement.                                      *)
(***************************************************************************)
Procs == 1 .. MaxProcs

\* The identifier the concurrent callers share.
SharedID == 1

\* The entities the concurrent callers save.
ConcModel == {m \in Model : m.ID = SharedID}

ConcNamespaces == {"default"}

Caller(pc, op, ns, id, entity, fromDB, at, pre, result, drv, err) ==
    [pc |-> pc, op |-> op, ns |-> ns, id |-> id, entity |-> entity, fromDB |-> fromDB,
     at |-> at, pre |-> pre, result |-> result, drv |-> drv, err |-> err]

IdleProc == Caller("idle", "none", "default", NilUUID, <<>>, NilUUID, 0, {}, <<>>, "none", NoErr)

InitConc ==
    /\ InitRepo
    /\ ChainIdle
    /\ procs = [p \in Procs |-> IdleProc]
    /\ commits = <<>>

\* commits after caller p's write turned the table into tbl and returned err.
Committed(p, tbl, err, drv) ==
    IF tbl # table \/ (err = NoErr /\ drv = "ok") THEN Append(commits, p) ELSE commits

\* Save up to and including the select into fromDB (part of Repo.Save).
ConcSaveSelect(p, ns, entity, sel) ==
    /\ procs[p].pc = "idle"
    /\ procs' = [procs EXCEPT ![p] =
          IF MissingID(entity)
          THEN Caller("done", "Save", ns, entity.ID, <<entity>>, NilUUID, Len(commits), {},
                      <<>>, "none", RepoError(ErrCouldNotSaveEntity, ErrMissingEntityID, ns))
          ELSE IF FactoryUnset(factoryFn)
          THEN Caller("panicked", "Save", ns, entity.ID, <<entity>>, NilUUID, Len(commits), {},
                      <<>>, "none", NoErr)
          ELSE Caller("selected", "Save", ns, entity.ID, <<entity>>,
                      FromDB(table, entity.ID, sel), Len(commits),
                      SelectByID(table, entity.ID), <<>>, sel, NoErr)]
    /\ UNCHANGED <<repoVars, chainVars, commits>>

\* The rest of Save: the update or the insert, and the return.
ConcSaveWrite(p, ns, drv) ==
    LET entity == procs[p].entity[1]
        out == PgSaveWrite(table, ns, entity, procs[p].fromDB, procs[p].drv, drv)
    IN  /\ procs[p].pc = "selected"
        /\ procs' = [procs EXCEPT ![p] =
              Caller("done", "Save", ns, entity.ID, <<entity>>, procs[p].fromDB,
                     procs[p].at, procs[p].pre, <<>>, out.drv, out.err)]
        /\ table' = out.table
        /\ commits' = Committed(p, out.table, out.err, drv)
        /\ UNCHANGED <<nsTables, factoryFn, last, saved, chainVars>>

\* Repo.Remove (go-pg) by caller p: the factory check and the one delete.
ConcPgRemove(p, ns, id, drv) ==
    LET out == PgRemoveResult(factoryFn, table, ns, id, drv)
    IN  /\ procs[p].pc = "idle"
        /\ procs' = [procs EXCEPT ![p] =
              Caller("done", "Remove", ns, id, <<>>, NilUUID, Len(commits),
                     SelectByID(table, id), <<>>, out.drv, out.err)]
        /\ table' = out.table
        /\ commits' = Committed(p, out.table, out.err, drv)
        /\ UNCHANGED <<nsTables, factoryFn, last, saved, chainVars>>

NextConc ==
    \/ \E f \in Factories : SetEntityFactory(f)
    \/ \E p \in Procs, ns \in ConcNamespaces, entity \in ConcModel, sel \in DrvOutcomes :
          ConcSaveSelect(p, ns, entity, sel)
    \/ \E p \in Procs, ns \in ConcNamespaces, drv \in WriteOutcomes : ConcSaveWrite(p, ns, drv)
    \/ \E p \in Procs, ns \in ConcNamespaces, drv \in DrvOutcomes :
          ConcPgRemove(p, ns, SharedID, drv)

SpecPgConc == InitConc /\ [][NextConc]_vars

\* The calls a concurrent caller of the sqlx variant makes, as <<operation,
\* identifier, entity>>.
ConcCalls ==
    {<<"Find", SharedID, <<>>>>, <<"Remove", SharedID, <<>>>>}
        \cup {<<"Save", e.ID, <<e>>>> : e \in ConcModel}

\* What the handler of a call does with the table tbl (sqlx variant).
ConcResult(op, f, tbl, ns, id, entity, drv) ==
    CASE op = "Find" -> FindResult(f, tbl, ns, id, drv)
      [] op = "Save" -> SaveResult(f, tbl, ns, entity[1], drv)
      [] op = "Remove" -> RemoveResult(f, tbl, ns, id, drv)

\* SetEntityFactory before the callers start, as the tests set the factory
\* when they build the repository (a SetEntityFactory during a call would
\* race with the handler's reads of r.factoryFn).
ConcSetEntityFactory(f) ==
    /\ \A p \in Procs : procs[p].pc = "idle"
    /\ SetEntityFactory(f)

\* Caller p starts a call: the handler runs to its Backend statement, or
\* returns when one of its checks rejects the call before that.
ConcCall(p, op, ns, id, entity) ==
    LET out == ConcResult(op, factoryFn, table, ns, id, entity, "ok")
    IN  /\ procs[p].pc = "idle"
        /\ procs' = [procs EXCEPT ![p] =
              IF out.calls = <<>>
              THEN Caller("done", op, ns, id, entity, NilUUID, Len(commits), {},
                          out.result, out.drv, out.err)
              ELSE Caller("called", op, ns, id, entity, NilUUID, 0, {}, <<>>, "none", NoErr)]
        /\ UNCHANGED <<repoVars, chainVars, commits>>

\* The statement of caller p's call runs with Backend outcome drv, and the
\* handler returns.
ConcStatement(p, drv) ==
    LET c == procs[p]
        out == ConcResult(c.op, factoryFn, table, c.ns, c.id, c.entity, drv)
    IN  /\ c.pc = "called"
        /\ procs' = [procs EXCEPT ![p] =
              Caller("done", c.op, c.ns, c.id, c.entity, NilUUID, Len(commits),
                     SelectByID(table, c.id), out.result, out.drv, out.err)]
        /\ table' = out.table
        /\ commits' = IF c.op = "Find" THEN commits
                      ELSE Committed(p, out.table, out.err, drv)
        /\ UNCHANGED <<nsTables, factoryFn, last, saved, chainVars>>

NextSqlxConc ==
    \/ \E f \in Factories : ConcSetEntityFactory(f)
    \/ \E p \in Procs, ns \in ConcNamespaces, c \in ConcCalls : ConcCall(p, c[1], ns, c[2], c[3])
    \/ \E p \in Procs, drv \in DrvOutcomes : ConcStatement(p, drv)

SpecConc == InitConc /\ [][NextSqlxConc]_vars

(***************************************************************************)
(* The function Repository and the method Parent.  A ReadRepo handle is    *)
(* the sequence of the repositories reached from it by parent links,       *)
(* itself first; nil is the empty sequence.  A concrete Repo has no parent *)
(* field, so it can only be the last of a chain.                           *)
(***************************************************************************)
\* The concrete repositories (*Repo) and the other ReadRepo values, which
\* wrap a parent (the test uses ehmocks.Repo).
Repos == {"r1", "r2"}
Wrappers == {"w1", "w2"}

Chains ==
    {h \in UNION {[1 .. n -> Repos \cup Wrappers] : n \in 0 .. MaxChain} :
        \A i \in 1 .. Len(h) - 1 : h[i] \in Wrappers}

\* r, ok := repo.(*Repo)
IsRepo(node) == node \in Repos

\* repo.Parent(): nil for a concrete Repo, the wrapped repository otherwise.
Parent(h) == IF IsRepo(h[1]) THEN <<>> ELSE Tail(h)

\* Repository without the recursion on the parent.
RepositoryStepNoParent(h) ==
    IF h = <<>>
    THEN [ret |-> "nil", cur |-> h]
    ELSE IF IsRepo(h[1])
    THEN [ret |-> h[1], cur |-> h]
    ELSE [ret |-> "nil", cur |-> h]

\* One invocation of Repository(repo): return nil, return the Repo, or call
\* Repository(repo.Parent()).
RepositoryStep(h) ==
    IF h = <<>>
    THEN [ret |-> "nil", cur |-> h]
    ELSE IF IsRepo(h[1])
    THEN [ret |-> h[1], cur |-> h]
    ELSE [ret |-> "pending", cur |-> Parent(h)]

\* A caller calls Repository(h).
CallRepository(h) ==
    /\ ret # "pending"
    /\ handle' = h
    /\ cur' = h
    /\ ret' = "pending"
    /\ UNCHANGED <<repoVars, concVars>>

\* The invocation under way runs.
Repository ==
    /\ ret = "pending"
    /\ ret' = RepositoryStep(cur).ret
    /\ cur' = RepositoryStep(cur).cur
    /\ UNCHANGED <<handle, repoVars, concVars>>

\* A caller calls h.Parent() on a concrete Repo h; cur holds what it returns.
CallParent(h) ==
    /\ ret # "pending"
    /\ h # <<>>
    /\ IsRepo(h[1])
    /\ handle' = h
    /\ cur' = Parent(h)
    /\ ret' = "Parent"
    /\ UNCHANGED <<repoVars, concVars>>

NextChain ==
    \/ \E h \in Chains : CallRepository(h)
    \/ Repository
    \/ \E h \in Chains : CallParent(h)

SpecChain == Init /\ [][NextChain]_vars

(***************************************************************************)
(* Properties.                                                             *)
(***************************************************************************)
HasRow(tbl, id) == \E r \in tbl : r["id"] = id

ReadOps == {"Find", "FindAll", "FindWithFilter", "FindWithFilterUsingIndex"}

LiveIDs == {id \in IDs : saved[id] # <<>>}

\* C1: Save of an entity whose identifier is uuid.Nil returns a RepoError
\* whose Err is CouldNotSaveEntity and whose BaseErr is MissingEntityID, makes
\* no Backend call and leaves the rows of the table as they were; and no call
\* of any operation returns an error whose Err (outer kind) is MissingEntityID.
C1_SaveWithoutID ==
    /\ (last.op = "Save" /\ last.id = NilUUID) =>
          /\ last.err = RepoError(ErrCouldNotSaveEntity, ErrMissingEntityID, last.ns)
          /\ last.calls = <<>>
          /\ table = last.pre
          /\ ~last.panic
    /\ last.err.Err # ErrMissingEntityID

C1_Witness ==
    /\ last.op = "Save"
    /\ last.id = NilUUID
    /\ last.pre # {}

\* C2: a Find(e.ID) that comes right after a successful Save(e), e.ID not
\* uuid.Nil, returns no error and an entity equal to e in every field, whatever
\* else the table holds.  (The Find is one that reached the Backend and whose
\* query the Backend answered: the Factory is set and the driver reported no
\* failure.)
C2_SaveThenFind ==
    (last.op = "Find" /\ last.prior.op = "Save" /\ last.drv = "ok") =>
        /\ last.id # NilUUID
        /\ last.err = NoErr
        /\ last.result = last.prior.entity

C2_Witness ==
    /\ last.op = "Find"
    /\ last.prior.op = "Save"
    /\ last.drv = "ok"
    /\ Cardinality(last.pre) > 1

\* C3: a Save of an entity whose identifier already has a row succeeds (when
\* the driver reports no failure) and leaves exactly one row for that
\* identifier; the Find right after it returns exactly the entity of that
\* Save, with none of the fields of the entity stored before.
C3_SaveReplaces ==
    /\ (last.op = "Save" /\ HasRow(last.pre, last.id) /\ last.drv = "ok") =>
          /\ last.err = NoErr
          /\ Cardinality({r \in table : r["id"] = last.id}) = 1
    /\ (last.op = "Find" /\ last.prior.op = "Save" /\ last.prior.old # {}
            /\ last.drv = "ok") =>
          /\ last.err = NoErr
          /\ last.result = last.prior.entity
          /\ Cardinality({r \in table : r["id"] = last.id}) = 1

C3_Witness ==
    /\ last.op = "Find"
    /\ last.prior.op = "Save"
    /\ last.drv = "ok"
    /\ \E old \in last.prior.old :
          /\ old.Version # last.result[1].Version
          /\ old.CreatedAt # last.result[1].CreatedAt

\* C4: with the Factory set, Find(id) of an identifier that has no stored row
\* (never saved, or removed or cleared and not saved again since) returns no
\* entity and a RepoError whose Err is EntityNotFound; and no Find returns
\* both an entity and an error.
C4_FindMissing ==
    last.op = "Find" =>
        /\ (factoryFn # "nil" /\ saved[last.id] = <<>>) =>
              /\ last.result = <<>>
              /\ last.err.type = "RepoError"
              /\ last.err.Err = ErrEntityNotFound
        /\ ~(last.result # <<>> /\ last.err # NoErr)

C4_Witness ==
    /\ last.op = "Find"
    /\ factoryFn # "nil"
    /\ last.id # NilUUID
    /\ saved[last.id] = <<>>
    /\ last.drv = "ok"
    /\ last.pre # {}

\* C5: Remove(id) of an identifier that has a row returns no error and deletes
\* the row (when the driver reports no failure), and the Find(id) right after
\* a successful Remove(id) returns no entity and a RepoError whose Err is
\* EntityNotFound (the Factory being set).
C5_RemoveThenFind ==
    /\ (last.op = "Remove" /\ HasRow(last.pre, last.id) /\ last.drv = "ok") =>
          /\ last.err = NoErr
          /\ ~HasRow(table, last.id)
    /\ (last.op = "Find" /\ last.prior.op = "Remove" /\ factoryFn # "nil") =>
          /\ last.prior.old # {}
          /\ last.result = <<>>
          /\ last.err.type = "RepoError"
          /\ last.err.Err = ErrEntityNotFound

C5_Witness ==
    /\ last.op = "Find"
    /\ last.prior.op = "Remove"
    /\ factoryFn # "nil"
    /\ last.drv = "ok"
    /\ last.pre # {}

\* C6: Remove(id) of an identifier that has no row (when the driver reports no
\* failure) returns a RepoError whose Err is EntityNotFound, not success, and
\* leaves the table as it was.
C6_RemoveMissing ==
    (last.op = "Remove" /\ ~HasRow(last.pre, last.id) /\ last.drv = "ok") =>
        /\ last.err = RepoError(ErrEntityNotFound, NoBaseErr, last.ns)
        /\ table = last.pre

C6_Witness ==
    /\ last.op = "Remove"
    /\ last.id # NilUUID
    /\ ~HasRow(last.pre, last.id)
    /\ last.drv = "ok"
    /\ last.pre # {}

\* C7: with the Factory set, FindAll on a table without rows returns a result
\* of length 0 and no error, not EntityNotFound (when the driver reports no
\* failure of the query).
C7_FindAllEmpty ==
    (last.op = "FindAll" /\ factoryFn # "nil" /\ last.pre = {} /\ last.drv = "ok") =>
        /\ last.err = NoErr
        /\ Len(last.result) = 0

C7_Witness ==
    /\ last.op = "FindAll"
    /\ factoryFn # "nil"
    /\ last.pre = {}
    /\ last.drv = "ok"

\* C8: a FindAll that the Backend answers in full returns no error and, in some
\* order, exactly one entity for each identifier that is live (saved
\* successfully and not removed or cleared since), equal to the entity of the
\* latest successful Save of that identifier, and nothing else.
C8_FindAllExact ==
    (last.op = "FindAll" /\ last.drv = "ok") =>
        /\ last.err = NoErr
        /\ Len(last.result) = Cardinality(LiveIDs)
        /\ \A id \in LiveIDs :
              \E i \in 1 .. Len(last.result) : last.result[i] = saved[id][1]

C8_Witness ==
    /\ last.op = "FindAll"
    /\ last.drv = "ok"
    /\ Len(last.result) > 1

\* C9: while the Factory is not set, Find, FindAll, FindWithFilter and
\* FindWithFilterUsingIndex return a nil result and a RepoError whose Err is
\* ModelNotSet, make no Backend call and leave the table as it was.
C9_ReadsNeedFactory ==
    (last.op \in ReadOps /\ factoryFn = "nil") =>
        /\ last.result = <<>>
        /\ last.err = RepoError(ErrModelNotSet, NoBaseErr, last.ns)
        /\ last.calls = <<>>
        /\ table = last.pre

C9_Witness ==
    /\ last.op \in ReadOps
    /\ factoryFn = "nil"
    /\ last.pre # {}

\* C10: every Find, FindAll, Save, Remove and Clear called while the Factory
\* is not set returns a RepoError whose Err is ModelNotSet, changes no stored
\* row and does not panic.  (A Save of an entity without identifier, which C1
\* gives its own error, is left aside.)
C10_EveryOpNeedsFactory ==
    (last.op \in {"Find", "FindAll", "Save", "Remove", "Clear"} /\ factoryFn = "nil"
        /\ ~(last.op = "Save" /\ last.id = NilUUID)) =>
        /\ last.err.type = "RepoError"
        /\ last.err.Err = ErrModelNotSet
        /\ table = last.pre
        /\ ~last.panic

SaveWriteOk == last.drv \in {"ok", "ok/ok", "fail/ok"}

\* The write of the latest Save reported zero affected rows.
SaveWriteZeroRows == last.drv \in {"zeroRows", "ok/zeroRows", "fail/zeroRows"}

\* C12: a Save of an entity with an identifier that reaches the Backend
\* returns no error only if the write reported no driver error and one
\* affected row: a driver error or zero affected rows yield a RepoError whose
\* Err is CouldNotSaveEntity, and a write reported as done on one row yields
\* success.
C12_SaveOneRow ==
    (last.op = "Save" /\ last.id # NilUUID /\ last.calls # <<>>) =>
        /\ last.err = NoErr => (SaveWriteOk /\ HasRow(table, last.id))
        /\ SaveWriteZeroRows => last.err # NoErr
        /\ last.err # NoErr =>
              /\ last.err.type = "RepoError"
              /\ last.err.Err = ErrCouldNotSaveEntity
        /\ (SaveWriteOk /\ FieldMap(last.entity[1]) \in table) => last.err = NoErr

\* C13: Remove classifies its outcome by the Backend result: a driver failure
\* gives a RepoError whose Err is CouldNotRemoveEntity (wrapping the driver
\* error, no row changed), zero affected rows give EntityNotFound, one
\* affected row gives success; EntityNotFound and success are returned only
\* when the driver reported no failure.
C13_RemoveClassifies ==
    last.op = "Remove" =>
        /\ last.drv = "fail" =>
              /\ last.err = RepoError(ErrCouldNotRemoveEntity, ErrDriver, last.ns)
              /\ table = last.pre
        /\ (last.drv = "ok" /\ ~HasRow(last.pre, last.id)) =>
              /\ last.err.type = "RepoError"
              /\ last.err.Err = ErrEntityNotFound
        /\ (last.drv = "ok" /\ HasRow(last.pre, last.id)) => last.err = NoErr
        /\ (last.err = NoErr \/ last.err.Err = ErrEntityNotFound) => last.drv = "ok"

C13_Witness ==
    /\ last.op = "Remove"
    /\ last.drv = "fail"
    /\ HasRow(last.pre, last.id)

\* C14: after a Clear that returns no error the table holds no row, however
\* many rows it held and whatever their identifiers: a FindAll then scans
\* nothing and the select of Find(id) finds no row for any identifier.
C14_ClearDeletesAll ==
    (last.op = "Clear" /\ last.err = NoErr /\ ~last.panic) =>
        /\ table = {}
        /\ \A id \in IDs : SelectByID(table, id) = {}

\* What a call returns and leaves, with the namespace taken out of its error.
WithoutNamespace(out) ==
    [table |-> out.table, result |-> out.result, kind |-> out.err.Err,
     base |-> out.err.BaseErr, panic |-> out.panic]

\* C15: the table the statements work on does not depend on the namespace of
\* the context.  Called with any two namespaces, Find, Remove, Clear and Save
\* work on the same rows and return and leave the same but for the namespace
\* recorded in an error; no row is ever in a table with a namespace-dependent
\* name; an entity saved under one namespace is returned by the Find under
\* another, and an entity removed under one namespace is not.
C15_TableIgnoresNamespace ==
    /\ \A n \in NamespaceTables : nsTables[n] = {}
    /\ \A ns1, ns2 \in Namespaces :
          /\ Rows(TableFor(ns1)) = Rows(TableFor(ns2))
          /\ \A id \in IDs :
                /\ WithoutNamespace(FindResult(factoryFn, Rows(TableFor(ns1)), ns1, id, "ok"))
                     = WithoutNamespace(FindResult(factoryFn, Rows(TableFor(ns2)), ns2, id, "ok"))
                /\ WithoutNamespace(RemoveResult(factoryFn, Rows(TableFor(ns1)), ns1, id, "ok"))
                     = WithoutNamespace(RemoveResult(factoryFn, Rows(TableFor(ns2)), ns2, id, "ok"))
          /\ WithoutNamespace(ClearResult(factoryFn, Rows(TableFor(ns1)), ns1, "ok"))
               = WithoutNamespace(ClearResult(factoryFn, Rows(TableFor(ns2)), ns2, "ok"))
    /\ (last.op = "Find" /\ last.prior.op = "Save" /\ last.prior.ns # last.ns
            /\ last.drv = "ok") =>
          /\ last.err = NoErr
          /\ last.result = last.prior.entity
    /\ (last.op = "Find" /\ last.prior.op = "Remove" /\ last.prior.ns # last.ns
            /\ last.drv = "ok") =>
          /\ last.result = <<>>
          /\ last.err.Err = ErrEntityNotFound
    /\ last.err.Namespace \in {"", last.ns}

C15_Witness ==
    /\ last.op = "Find"
    /\ last.prior.op = "Save"
    /\ last.prior.ns # last.ns
    /\ last.result # <<>>
    /\ Cardinality(last.pre) > 1

\* The first concrete Repo of a chain, "nil" when it has none.
FirstRepo(h) ==
    IF \E i \in 1 .. Len(h) : IsRepo(h[i])
    THEN h[CHOOSE i \in 1 .. Len(h) : IsRepo(h[i]) /\ \A j \in 1 .. i - 1 : ~IsRepo(h[j])]
    ELSE "nil"

C16_Returns ==
    /\ ret \in Repos \cup {"nil"} =>
          /\ ret = FirstRepo(handle)
          /\ handle = <<>> => ret = "nil"
          /\ (handle # <<>> /\ IsRepo(handle[1])) => ret = handle[1]
    /\ ret = "Parent" => cur = <<>>
    /\ ret = "pending" => \E k \in 0 .. Len(handle) : cur = SubSeq(handle, k + 1, Len(handle))

\* C16: Repository(handle) returns nil for a nil handle, the handle itself
\* when it is a concrete Repo, and otherwise the first concrete Repo reached
\* by following Parent() links, nil when the chain ends without one; every
\* recursive call is on a strictly shorter chain, so the call returns on every
\* finite chain; Parent() of a concrete Repo is nil.
C16_RepositoryWalk ==
    /\ []C16_Returns
    /\ [][(ret = "pending" /\ ret' = "pending") => Len(cur') < Len(cur)]_vars
    /\ [][(ret = "pending" /\ ret' # "pending") => ret' \in Repos \cup {"nil"}]_vars

C16_Witness ==
    /\ ret \in Repos
    /\ Len(handle) = MaxChain
    /\ cur = <<ret>>

\* The callers have all returned from a Save of one and the same identifier,
\* and the Backend reported no failure of any of their statements.
ConcSavesDone ==
    /\ \A p \in Procs : procs[p].pc = "done" /\ procs[p].drv = "ok/ok"
    /\ \A p, q \in Procs : procs[p].entity[1].ID = procs[q].entity[1].ID

\* C17: when callers save entities with the same identifier concurrently and
\* the Backend reports no failure, every Save returns no error, and afterwards
\* the table holds exactly one row for the identifier, the entity of the Save
\* whose write committed last.
C17_ConcurrentSaves ==
    ConcSavesDone =>
        /\ \A p \in Procs : procs[p].err = NoErr
        /\ Len(commits) = MaxProcs
        /\ {r \in table : r["id"] = procs[1].entity[1].ID}
              = {FieldMap(procs[commits[Len(commits)]].entity[1])}

\* C18: every error a repository operation returns is a RepoError that
\* carries a Kind and the namespace of the calling context, and no operation
\* ends in a panic or in the end of the process.
C18_ErrorsAreRepoErrors ==
    /\ last.err # NoErr =>
          /\ last.err.type = "RepoError"
          /\ last.err.Err # ""
          /\ last.err.Namespace = last.ns
    /\ ~last.panic

\* C19: a Save, Remove or Clear that returns an error leaves the rows of the
\* table exactly as they were before the call; a Save or a Remove adds, changes
\* or deletes no row but the one of the identifier it is given.
C19_NoPartialSuccess ==
    /\ (last.op \in {"Save", "Remove", "Clear"} /\ last.err # NoErr) => table = last.pre
    /\ last.op \in {"Save", "Remove"} =>
          /\ \A r \in (table \ last.pre) \cup (last.pre \ table) : r["id"] = last.id
          /\ Cardinality(table \ last.pre) <= 1
          /\ Cardinality(last.pre \ table) <= 1

C19_Witness ==
    /\ last.op = "Clear"
    /\ last.err # NoErr
    /\ Cardinality(last.pre) > 1

\* C20: Save does not compare versions: a Save of an entity whose identifier
\* has a row succeeds (when the Backend executes the write) and leaves that
\* row equal to the incoming entity, whether the incoming Version is lower
\* than, equal to or higher than the stored one.
C20_SaveIgnoresVersion ==
    \A old \in last.pre :
        (last.op = "Save" /\ last.drv = "ok" /\ old["id"] = last.id
            /\ (\/ last.entity[1].Version < old["version"]
                \/ last.entity[1].Version = old["version"]
                \/ last.entity[1].Version > old["version"])) =>
            /\ last.err = NoErr
            /\ {r \in table : r["id"] = last.id} = {FieldMap(last.entity[1])}

C20_Witness ==
    /\ last.op = "Save"
    /\ last.drv = "ok"
    /\ last.err = NoErr
    /\ \E old \in last.pre :
          /\ old["id"] = last.id
          /\ last.entity[1].Version < old["version"]

\* The position, in the Backend calls of the latest operation, of the first
\* call that failed; 0 when none failed.  (The go-pg Save records the outcome
\* of its select before that of its write; every other operation records the
\* one failure that ended it.)
FirstFailure ==
    IF last.drv \in {"fail/ok", "fail/fail", "fail/zeroRows"}
    THEN 1
    ELSE IF last.drv \in {"fail", "ok/fail", "scanFail", "nextFail",
                          "beginFail", "execFail", "commitFail"}
    THEN Len(last.calls)
    ELSE 0

\* C21: an operation does not go on after a Backend failure: the Backend call
\* that failed is the last one the operation makes, the operation returns an
\* error (it does not panic either), and no operation makes the same Backend
\* call twice.  (Close, which has no error to return, is left aside.)
C21_NoRetryNoContinue ==
    last.op # "Close" =>
        /\ FirstFailure > 0 =>
              /\ Len(last.calls) = FirstFailure
              /\ last.err # NoErr
              /\ ~last.panic
        /\ \A i, j \in 1 .. Len(last.calls) : i # j => last.calls[i] # last.calls[j]

\* C22: a Clear whose commit fails returns a RepoError whose Err is
\* CouldNotClearDB and leaves every row in place; a Clear whose begin or whose
\* delete fails returns an error to the caller as well (it does not panic) and
\* leaves every row in place.
C22_ClearFailures ==
    last.op = "Clear" =>
        /\ last.drv = "commitFail" =>
              /\ last.err = RepoError(ErrCouldNotClearDB, ErrDriver, last.ns)
              /\ table = last.pre
        /\ last.drv \in {"beginFail", "execFail"} =>
              /\ last.err # NoErr
              /\ ~last.panic
              /\ table = last.pre

\* C23: Save leaves the entity it is given as it was; every entity a Find or
\* a FindAll returns is an instance the Factory created during that call; the
\* elements of one FindAll result are pairwise distinct instances, each holding
\* the values of its own row (no row's values are those of a later row).
C23_FreshInstances ==
    /\ (last.op = "Save" /\ ~last.panic) => last.arg = last.entity
    /\ last.op \in {"Find", "FindAll"} =>
          /\ Len(last.insts) = Len(last.result)
          /\ \A i \in 1 .. Len(last.insts) : last.insts[i].by = "factoryFn"
          /\ \A i, j \in 1 .. Len(last.insts) : i # j =>
                /\ last.insts[i] # last.insts[j]
                /\ last.result[i] # last.result[j]
          /\ \A i \in 1 .. Len(last.result) : FieldMap(last.result[i]) \in last.pre

\* What Find(id) returns on the rows tbl when the Factory is set and the
\* Backend answers: the entity and the error.
Found(tbl, id) ==
    LET out == FindResult("Model", tbl, last.ns, id, "ok")
    IN  <<out.result, out.err>>

\* C24: a Save or a Remove that returns no error changes the row of its own
\* identifier only: for every other identifier j, Find(j) after the call
\* returns what Find(j) before it would have returned, and the number of rows
\* of the table differs from the number before by at most one.
C24_OnlyThatRow ==
    (last.op \in {"Save", "Remove"} /\ last.err = NoErr /\ ~last.panic) =>
        /\ \A j \in IDs \ {last.id} : Found(table, j) = Found(last.pre, j)
        /\ Cardinality(table) - Cardinality(last.pre) \in {-1, 0, 1}

\* A successful Save over a stored row, and a successful Remove, each with a
\* row of another identifier in the table.
C24_Witness ==
    /\ last.op \in {"Save", "Remove"}
    /\ last.err = NoErr
    /\ last.drv = "ok"
    /\ HasRow(last.pre, last.id)
    /\ \E j \in IDs \ {last.id} : HasRow(last.pre, j) /\ HasRow(table, j)

\* Caller p has returned from a call of op whose statements the Backend
\* executed without failure.
Returned(p, op) ==
    /\ procs[p].pc = "done"
    /\ procs[p].op = op
    /\ procs[p].drv \in {"ok", "ok/ok"}

\* The position of caller p's write in the commit order, 0 when it has none.
CommitIndex(p) ==
    IF \E i \in 1 .. Len(commits) : commits[i] = p
    THEN CHOOSE i \in 1 .. Len(commits) : commits[i] = p
    ELSE 0

\* No Save ran between the Removes of callers p and q: the write of every
\* Save had committed before the first of the two deletes ran.
NoSaveBetween(p, q) ==
    \A r \in Procs :
        procs[r].op = "Save" => /\ CommitIndex(r) <= procs[p].at
                                /\ CommitIndex(r) <= procs[q].at

\* C25: when two callers concurrently Remove one identifier that has a row,
\* no Save running between them and the Backend reporting no failure,
\* exactly one of the two returns no error and the other returns
\* EntityNotFound: never both succeed, never both fail.
C25_ConcurrentRemoves ==
    \A p, q \in Procs :
        (/\ p # q
         /\ Returned(p, "Remove") /\ Returned(q, "Remove")
         /\ procs[p].id = procs[q].id
         /\ procs[p].at <= procs[q].at
         /\ procs[p].pre # {}
         /\ NoSaveBetween(p, q)) =>
            /\ procs[p].err = NoErr
            /\ procs[q].err = RepoError(ErrEntityNotFound, NoBaseErr, procs[q].ns)

C25_Witness ==
    \E p, q \in Procs :
        /\ p # q
        /\ Returned(p, "Remove") /\ Returned(q, "Remove")
        /\ procs[p].pre # {}
        /\ procs[q].err # NoErr
        /\ NoSaveBetween(p, q)

\* Between the first and the last statement of caller p's Save no other Save
\* of the identifier wrote: every other caller is a Remove, or a Save that has
\* not written, or a Save whose write committed before p's first statement.
OnlyRemovesDuring(p) ==
    \A q \in Procs \ {p} :
        procs[q].op = "Save" => CommitIndex(q) <= procs[p].at

\* C26: a Save of a non-zero identifier that runs concurrently with a Remove
\* of the same identifier, the Backend reporting no failure, returns no
\* error, whether the row disappeared between the Save's own statements or
\* not; afterwards the identifier has no row or exactly the saved entity.
C26_SaveDuringRemove ==
    \A p, q \in Procs :
        (/\ Returned(p, "Save") /\ procs[p].id # NilUUID
         /\ Returned(q, "Remove") /\ procs[q].id = procs[p].id
         /\ OnlyRemovesDuring(p)) =>
            /\ procs[p].err = NoErr
            /\ (\A r \in Procs \ {p} : procs[r].op = "Remove") =>
                  SelectByID(table, procs[p].id) \in {{}, {FieldMap(procs[p].entity[1])}}

\* The entities that Saves had written when caller p's statement ran.
WrittenBefore(p) ==
    {procs[q].entity[1] : q \in {r \in Procs : /\ procs[r].op = "Save"
                                                /\ CommitIndex(r) > 0
                                                /\ CommitIndex(r) <= procs[p].at}}

\* C27: a Find that runs concurrently with Saves and Removes of the same
\* identifier and whose query the Backend answers returns EntityNotFound or
\* an entity equal in every field to one entity that a Save wrote, never a
\* mixture of fields of different writes.
C27_FindSeesWholeEntity ==
    \A p \in Procs :
        Returned(p, "Find") =>
            \/ /\ procs[p].result = <<>>
               /\ procs[p].err = RepoError(ErrEntityNotFound, ErrNoRows, procs[p].ns)
            \/ /\ procs[p].err = NoErr
               /\ Len(procs[p].result) = 1
               /\ procs[p].result[1] \in WrittenBefore(p)

\* A Find that returns the entity of the second of two Saves of the identifier.
C27_Witness ==
    \E p \in Procs :
        /\ Returned(p, "Find")
        /\ procs[p].err = NoErr
        /\ Cardinality(WrittenBefore(p)) > 1

====
